---- MODULE Spec2Model ----
(***************************************************************************)
(* Model of the crawl scheduler of src/components/image-downloader.tsx     *)
(* (the third, current revision of the ImageDownloader component, lines    *)
(* 776-1881).                                                              *)
(*                                                                         *)
(* One action is one task of the browser's event loop: the handler, timer  *)
(* callback or promise continuation, the promise continuations that are    *)
(* runnable at once (an await of a function that returned without          *)
(* suspending), and then React's render with the cleanups and effects of   *)
(* the effects whose dependencies changed, repeated until no state update  *)
(* is pending.                                                             *)
(***************************************************************************)
EXTENDS Integers, Sequences, FiniteSets, TLC

VARIABLES
    url,                      \* useState: the URL input
    error,                    \* useState: the error message shown, "" = none
    images,                   \* useState: ImageItem[]
    failedImages,             \* useState: Set<string>
    imageTypeFilter,          \* useState: string | null, "" = null
    loading,                  \* useState
    visitedUrls,              \* useState: Set<string>
    urlQueue,                 \* useState: string[]
    crawlSettings,            \* useState; the settings dialog is left alone once set
    currentStats,             \* useState
    crawlLogs,                \* useState: newest first
    isProcessingRef,          \* useRef
    loadingRef,               \* useRef
    queueProcessorTimeoutRef, \* useRef: timer id, 0 = null
    pagesVisitedRef,          \* useRef
    maxPagesRef,              \* useRef
    visitedUrlsRef,           \* useRef
    urlQueueRef,              \* useRef
    tasks,                    \* suspended async functions (await fetch / delay / download)
    timers,                   \* pending setTimeout callbacks of processQueue
    settleTimer,              \* pending 2000 ms timer of the completion effect
    renderedProcessing,       \* isProcessingRef.current as read by the last render
    hist,                     \* history of the session (observation only)
    probe,                    \* a call of a pure function: its arguments and result
    proxy                     \* a request to a proxy route: its handler's position and locals

vars == <<url, error, probe, proxy, images, failedImages, imageTypeFilter, loading, visitedUrls, urlQueue, crawlSettings, currentStats,
          crawlLogs, isProcessingRef, loadingRef, queueProcessorTimeoutRef,
          pagesVisitedRef, maxPagesRef, visitedUrlsRef, urlQueueRef, tasks, timers,
          settleTimer, renderedProcessing, hist>>

----------------------------------------------------------------------------
(* Bounds of the model *)

MaxLinks == 2        \* anchors per fetched page
MaxImgs == 2         \* img elements per fetched page
MaxStarts == 2       \* clicks on Start Crawling in one run
MaxDownloads == 1    \* clicks on Download Selected in one run
MaxDepthChoice == 2  \* largest maxDepth setting
MaxPagesChoice == 2  \* largest maxPages setting
LogKeep == 2         \* entries the log keeps (100 in the source, scaled)

Max(a, b) == IF a >= b THEN a ELSE b
Min(a, b) == IF a <= b THEN a ELSE b

SeqsUpTo(S, n) == UNION {[1..k -> S] : k \in 0..n}

Range(f) == {f[i] : i \in DOMAIN f}

----------------------------------------------------------------------------
(* URLs.  A URL string is a record: its form (absolute, protocol-relative  *)
(* "//host/path", path-absolute "/path", path-relative "name", or the      *)
(* empty string), its scheme and host, the non-empty segments of its path, *)
(* the number ts of slashes that follow the last segment (or the host, for *)
(* an empty path: "https://a" has ts = 0, "https://a/" has ts = 1 and      *)
(* "https://a/x//" has ts = 2), its query and its fragment.                *)

Str(f, sc, h, p, t, q, fr) ==
    [form |-> f, scheme |-> sc, host |-> h, segs |-> p, ts |-> t, query |-> q, frag |-> fr]

U(h, p, t) == Str("abs", "https", h, p, t, "", "")

\* The empty string: what normalizeUrl returns from its catch block.
Invalid == Str("empty", "", "", <<>>, 0, "", "")

LowerSeg(g) ==
    CASE g = "X" -> "x"
      [] g = "P.PNG" -> "p.png"
      [] g = "S.SVG" -> "s.svg"
      [] OTHER -> g

\* new URL(s) succeeds: s is absolute and names a host.
Parses(s) == s.form = "abs" /\ s.host # ""

\* inputUrl.startsWith("http")
StartsWithHttp(s) ==
    \/ s.form = "abs" /\ s.scheme \in {"http", "https"}
    \/ s.form = "relpath" /\ s.segs # <<>> /\ s.segs[1] = "http-guide"

\* new URL(s, base): the absolute string s resolves to; Invalid stands for
\* the TypeError it throws.
Resolve(s, base) ==
    IF ~Parses(base) THEN Invalid
    ELSE CASE s.form = "abs" -> IF Parses(s) THEN s ELSE Invalid
           [] s.form = "protorel" ->
                  IF s.host = "" THEN Invalid ELSE [s EXCEPT !.form = "abs", !.scheme = base.scheme]
           [] s.form = "pathabs" ->
                  [s EXCEPT !.form = "abs", !.scheme = base.scheme, !.host = base.host]
           [] s.form = "relpath" ->
                  [s EXCEPT !.form = "abs", !.scheme = base.scheme, !.host = base.host,
                            !.segs = (IF base.ts > 0 \/ base.segs = <<>>
                                         THEN base.segs
                                         ELSE SubSeq(base.segs, 1, Len(base.segs) - 1)) \o @]
           [] OTHER -> [base EXCEPT !.frag = ""]

\* The slashes that end url.pathname: the pathname of an empty path is "/".
PathnameTs(u) == IF u.segs = <<>> THEN Max(u.ts, 1) ELSE u.ts

\* url.origin + url.pathname.replace(/\/$/, "").toLowerCase() + (url.search || ""):
\* one trailing slash is removed, the path is lower-cased, the query is
\* kept and the fragment is left out.
KeyOf(u) ==
    IF u = Invalid THEN Invalid
    ELSE Str("abs", u.scheme, u.host,
             [i \in 1..Len(u.segs) |-> LowerSeg(u.segs[i])],
             Max(PathnameTs(u) - 1, 0), u.query, "")

normalizeUrl(inputUrl, baseUrl) ==
    IF StartsWithHttp(inputUrl)
       THEN KeyOf(IF Parses(inputUrl) THEN inputUrl ELSE Invalid)
    ELSE IF inputUrl.form = "protorel"
       THEN KeyOf(IF Parses(baseUrl) /\ inputUrl.host # ""
                     THEN [inputUrl EXCEPT !.form = "abs", !.scheme = baseUrl.scheme]
                     ELSE Invalid)
    ELSE KeyOf(Resolve(inputUrl, baseUrl))

isValidUrl(urlString) == Parses(urlString)

isSameDomain(urlA, urlB) ==
    Parses(urlA) /\ Parses(urlB) /\ urlA.host = urlB.host

getImageType(u) ==
    IF ~Parses(u) \/ Len(u.segs) = 0 \/ u.ts > 0 THEN "unknown"
    ELSE CASE LowerSeg(u.segs[Len(u.segs)]) = "p.png" -> "png"
           [] LowerSeg(u.segs[Len(u.segs)]) = "s.svg" -> "svg"
           [] OTHER -> "unknown"

Root == U("a", <<>>, 0)
PageX == U("a", <<"x">>, 0)
PageXY == U("a", <<"x", "y">>, 0)
ImgP == U("a", <<"p.png">>, 0)

\* An anchor or img element: the kind of its attribute value and, for a
\* value that names a URL, the URL it resolves to against the page.
Abs(u) == [kind |-> "url", target |-> u]

Seeds == {Root}
Hrefs == {Abs(Root), Abs(PageX), Abs(PageXY)}
Srcs == {Abs(ImgP)}

SettingsChoices ==
    {[maxDepth |-> d, maxPages |-> p, includeExternalDomains |-> FALSE,
      includeSvgImages |-> FALSE, maxRetries |-> 1] :
        d \in 1..MaxDepthChoice, p \in 1..MaxPagesChoice}

\* What the page proxy answers for one fetch.
Responses ==
    {[ok |-> FALSE, links |-> <<>>, imgs |-> <<>>]} \cup
    {[ok |-> TRUE, links |-> l, imgs |-> i] :
        l \in SeqsUpTo(Hrefs, MaxLinks), i \in SeqsUpTo(Srcs, MaxImgs)}

----------------------------------------------------------------------------
(* The extractor *)

\* One anchor whose href passed the prefix tests, with its normalized URL.
RECURSIVE LinksFrom(_, _, _, _, _)
LinkStep(normalizedUrl, rest, baseUrl, settings, seenUrls, links) ==
    IF normalizedUrl = Invalid \/ normalizedUrl \in seenUrls
       THEN LinksFrom(rest, baseUrl, settings, seenUrls, links)
    ELSE IF (~settings.includeExternalDomains /\ isSameDomain(normalizedUrl, baseUrl))
            \/ settings.includeExternalDomains
       THEN LinksFrom(rest, baseUrl, settings, seenUrls \cup {normalizedUrl},
                      Append(links, normalizedUrl))
    ELSE LinksFrom(rest, baseUrl, settings, seenUrls \cup {normalizedUrl}, links)

LinksFrom(hrefs, baseUrl, settings, seenUrls, links) ==
    IF hrefs = <<>> THEN links
    ELSE IF Head(hrefs).kind # "url"
       THEN LinksFrom(Tail(hrefs), baseUrl, settings, seenUrls, links)
    ELSE LinkStep(normalizeUrl(Head(hrefs).target, baseUrl), Tail(hrefs), baseUrl,
                  settings, seenUrls, links)

extractLinks(hrefs, baseUrl, settings) == LinksFrom(hrefs, baseUrl, settings, {}, <<>>)

ImageItem(imgUrl, pageUrl, type) ==
    [url |-> imgUrl, selected |-> TRUE, sourceUrl |-> pageUrl,
     type |-> type, loadFailed |-> FALSE, retryCount |-> 0]

\* One img element whose src is neither empty nor a data: URL, with its
\* normalized URL.
RECURSIVE ImagesFrom(_, _, _, _)
ImageStep(imgUrl, type, rest, pageUrl, settings, extractedImages) ==
    IF imgUrl = Invalid
       THEN ImagesFrom(rest, pageUrl, settings, extractedImages)
    ELSE IF type = "svg" /\ ~settings.includeSvgImages
       THEN ImagesFrom(rest, pageUrl, settings, extractedImages)
    ELSE ImagesFrom(rest, pageUrl, settings,
                    Append(extractedImages, ImageItem(imgUrl, pageUrl, type)))

ImageUrlStep(imgUrl, rest, pageUrl, settings, extractedImages) ==
    ImageStep(imgUrl, getImageType(imgUrl), rest, pageUrl, settings, extractedImages)

ImagesFrom(srcs, pageUrl, settings, extractedImages) ==
    IF srcs = <<>> THEN extractedImages
    ELSE IF Head(srcs).kind # "url"
       THEN ImagesFrom(Tail(srcs), pageUrl, settings, extractedImages)
    ELSE ImageUrlStep(normalizeUrl(Head(srcs).target, pageUrl), Tail(srcs), pageUrl,
                      settings, extractedImages)

extractImagesFromHtml(srcs, pageUrl, settings) == ImagesFrom(srcs, pageUrl, settings, <<>>)

----------------------------------------------------------------------------
(* The component's state as one record, so that a handler is a function    *)
(* from state to state.  dirty: a state update is pending; qCh, vCh: the   *)
(* pending update replaces the urlQueue / visitedUrls object.              *)

St ==
    [url |-> url, error |-> error, probe |-> probe, proxy |-> proxy, images |-> images,
     failedImages |-> failedImages, imageTypeFilter |-> imageTypeFilter,
     loading |-> loading, visitedUrls |-> visitedUrls,
     urlQueue |-> urlQueue, crawlSettings |-> crawlSettings,
     currentStats |-> currentStats, crawlLogs |-> crawlLogs,
     isProcessingRef |-> isProcessingRef, loadingRef |-> loadingRef,
     queueProcessorTimeoutRef |-> queueProcessorTimeoutRef,
     pagesVisitedRef |-> pagesVisitedRef, maxPagesRef |-> maxPagesRef,
     visitedUrlsRef |-> visitedUrlsRef, urlQueueRef |-> urlQueueRef,
     tasks |-> tasks, timers |-> timers, settleTimer |-> settleTimer,
     renderedProcessing |-> renderedProcessing, hist |-> hist,
     dirty |-> FALSE, qCh |-> FALSE, vCh |-> FALSE]

Rendered ==
    [loading |-> loading, qLen |-> Len(urlQueue), imgLen |-> Len(images),
     maxPages |-> crawlSettings.maxPages, proc |-> renderedProcessing]

\* The closure of one render: the state a function created by it reads.
Closure(s) == [url |-> s.url, settings |-> s.crawlSettings]

\* Mutant: the new entry replaces the log.
addLog_Replaces(s, type) ==
    [s EXCEPT !.dirty = TRUE, !.crawlLogs = <<type>>]

\* setCrawlLogs((prev) => [entry, ...prev.slice(0, 99)])
addLog(s, type) ==
    [s EXCEPT !.dirty = TRUE,
              !.crawlLogs = <<type>> \o SubSeq(@, 1, Min(Len(@), LogKeep - 1))]

setError(s, v) ==
    [s EXCEPT !.error = v, !.dirty = @ \/ (s.error # v)]

setLoading(s, v) ==
    [s EXCEPT !.loading = v, !.dirty = @ \/ (s.loading # v)]

FreeId(used) == CHOOSE i \in 1..(Cardinality(used) + 1) : i \notin used

clearTimeout(s, id) == [s EXCEPT !.timers = {t \in @ : t.id # id}]

\* queueProcessorTimeoutRef.current = setTimeout(...)
setProcessorTimeout(s, kind, cl) ==
    LET id == FreeId({t.id : t \in s.timers})
    IN [s EXCEPT !.timers = @ \cup {[id |-> id, kind |-> kind, cl |-> cl]},
                 !.queueProcessorTimeoutRef = id]

\* Mutant: the limit is compared with > instead of >=.
LimitReached_OffByOne(s) == s.pagesVisitedRef > s.maxPagesRef

\* pagesVisitedRef.current >= maxPagesRef.current
LimitReached(s) == s.pagesVisitedRef >= s.maxPagesRef

\* Mutant: the depth is not compared with maxDepth.
TooDeep_Never(depth, settings) == FALSE

\* depth > crawlSettings.maxDepth
TooDeep(depth, settings) == depth > settings.maxDepth

\* crawlPage from its limit check to its first await, given the normalized
\* page URL.  awaiting: the fetch was issued.
crawlPageAt(s, normalizedPageUrl, pageUrl, depth, cl) ==
    IF normalizedPageUrl = Invalid
       THEN [st |-> addLog(s, "warning"), awaiting |-> FALSE]
    ELSE IF LimitReached(s)
       THEN [st |-> setLoading(addLog(s, "warning"), FALSE), awaiting |-> FALSE]
    ELSE IF normalizedPageUrl \in s.visitedUrlsRef
       THEN [st |-> addLog(s, "info"), awaiting |-> FALSE]
    ELSE IF TooDeep(depth, cl.settings) \/ ~s.loadingRef
       THEN [st |-> s, awaiting |-> FALSE]
    ELSE [st |-> addLog(
                   [s EXCEPT
                      !.visitedUrlsRef = @ \cup {normalizedPageUrl},
                      !.visitedUrls = s.visitedUrlsRef \cup {normalizedPageUrl},
                      !.vCh = TRUE,
                      !.pagesVisitedRef = @ + 1,
                      !.currentStats =
                          [@ EXCEPT !.pagesVisited = s.pagesVisitedRef + 1,
                                    !.currentDepth = Max(@, depth)],
                      !.tasks = @ \cup
                          {[id |-> FreeId({t.id : t \in s.tasks}), pc |-> "fetch",
                            pageUrl |-> pageUrl, depth |-> depth, cl |-> cl,
                            late |-> s.hist.stopped, session |-> s.hist.starts]},
                      !.hist =
                          [@ EXCEPT !.fetched = @ \cup {normalizedPageUrl},
                                    !.refetch = @ \/ normalizedPageUrl \in s.hist.fetched,
                                    !.fetchAfterStop = @ \/ s.hist.stopped,
                                    !.noDelay = @ \/ s.hist.skipped,
                                    !.depthOff = @ \/ (\E h \in s.hist.hops :
                                                           h[1] = pageUrl /\ h[2] # depth),
                                    !.skipped = FALSE]],
                   "info"),
          awaiting |-> TRUE]

\* crawlPage up to its first await.
crawlPage(s, pageUrl, depth, cl) ==
    crawlPageAt(s, normalizeUrl(pageUrl, pageUrl), pageUrl, depth, cl)

\* processQueue after crawlPage has returned: the reschedule timer.
scheduleNext(s, cl) == setProcessorTimeout(s, "resched", cl)

\* processQueue after `await crawlPage(nextUrl, depth)`: it stays suspended
\* while the fetch is outstanding, and otherwise goes on at once.
afterCrawlPage(c, cl) == IF c.awaiting THEN c.st ELSE scheduleNext(c.st, cl)

\* processQueue once nextUrl has been taken off the queue (state s1).
processNext(s1, nextUrl, cl) ==
    IF normalizeUrl(nextUrl, nextUrl) \in s1.visitedUrlsRef
       THEN setProcessorTimeout(
                [addLog(s1, "info") EXCEPT !.isProcessingRef = FALSE],
                "now", cl)
    ELSE LET depth == Max(1, Len(nextUrl.segs) - Len(cl.url.segs) + 1)
         IN afterCrawlPage(
                crawlPage([s1 EXCEPT !.hist.deqOver = @ \/ depth > cl.settings.maxDepth],
                          nextUrl, depth, cl),
                cl)

\* processQueue once the pending timeout has been cleared (state s0).
processQueueFrom(s0, cl) ==
    IF LimitReached(s0)
       THEN setLoading(addLog(s0, "warning"), FALSE)
    ELSE IF s0.isProcessingRef \/ ~s0.loadingRef \/ Len(s0.urlQueueRef) = 0
       THEN s0
    ELSE processNext(addLog([s0 EXCEPT !.isProcessingRef = TRUE,
                                       !.urlQueueRef = Tail(s0.urlQueueRef),
                                       !.urlQueue = Tail(s0.urlQueueRef),
                                       !.qCh = TRUE,
                                       !.hist.deq = IF s0.hist.trace
                                                       THEN Append(@, Head(s0.urlQueueRef))
                                                       ELSE @],
                            "info"),
                     Head(s0.urlQueueRef), cl)

\* processQueue up to the await of a crawlPage that issued a fetch.
processQueue(s, cl) ==
    processQueueFrom(IF s.queueProcessorTimeoutRef # 0
                        THEN [clearTimeout(s, s.queueProcessorTimeoutRef)
                                 EXCEPT !.queueProcessorTimeoutRef = 0]
                        ELSE s,
                     cl)

----------------------------------------------------------------------------
(* Render and effects *)

LoopMinLen == 10
SameMinLen == 5

RECURSIVE Dedup(_, _)
Dedup(q, acc) ==
    IF q = <<>> THEN acc
    ELSE Dedup(Tail(q), IF Head(q) \in Range(acc) THEN acc ELSE Append(acc, Head(q)))

\* Mutant: the effect resets the counter but keeps the visited set.
SyncLoadingEffect_KeepsVisited(s, r) ==
    IF r.loading
       THEN [s EXCEPT !.loadingRef = TRUE]
       ELSE [s EXCEPT !.loadingRef = FALSE, !.pagesVisitedRef = 0, !.urlQueueRef = <<>>]

\* useEffect[loading]
SyncLoadingEffect(s, r) ==
    IF r.loading
       THEN [s EXCEPT !.loadingRef = TRUE]
       ELSE [s EXCEPT !.loadingRef = FALSE, !.pagesVisitedRef = 0,
                      !.visitedUrlsRef = {}, !.urlQueueRef = <<>>]

\* useEffect[crawlSettings.maxPages]
SyncMaxPagesEffect(s, r) == [s EXCEPT !.maxPagesRef = r.crawlSettings.maxPages]

\* useEffect[urlQueue]
SyncQueueEffect(s, r) == [s EXCEPT !.urlQueueRef = r.urlQueue]

\* useEffect[visitedUrls]
SyncVisitedEffect(s, r) == [s EXCEPT !.visitedUrlsRef = r.visitedUrls]

\* useEffect[loading, urlQueue], first part: start processing the queue
startProcessing(s, r) ==
    IF r.loading /\ Len(r.urlQueue) > 0 /\ ~s.isProcessingRef
       THEN processQueue(s, Closure(r))
       ELSE s

\* Mutant: the loop is reported but the queue is left as it is.
suppressLoop_NoTrim(p, r) ==
    IF r.loading /\ Len(r.urlQueue) > 0
       /\ 2 * Cardinality(Range(r.urlQueue)) < Len(r.urlQueue)
       /\ Len(r.urlQueue) > LoopMinLen
       THEN addLog(addLog(p, "warning"), "info")
       ELSE p

\* second part: a queue mostly made of duplicates is replaced by its unique URLs
suppressLoop(p, r) ==
    IF r.loading /\ Len(r.urlQueue) > 0
       /\ 2 * Cardinality(Range(r.urlQueue)) < Len(r.urlQueue)
       /\ Len(r.urlQueue) > LoopMinLen
       THEN addLog([addLog(p, "warning") EXCEPT
                        !.urlQueueRef = Dedup(r.urlQueue, <<>>),
                        !.urlQueue = Dedup(r.urlQueue, <<>>),
                        !.qCh = TRUE,
                        !.hist.suppressed = TRUE],
                   "info")
       ELSE p

\* Mutant: a queue of any length that repeats one URL is cleared.
suppressSame_AnyLength(l1, r) ==
    IF r.loading /\ Len(r.urlQueue) > 0
       /\ \A i \in 1..Len(r.urlQueue) : r.urlQueue[i] = r.urlQueue[1]
       THEN [addLog(l1, "warning") EXCEPT
                !.urlQueueRef = <<>>, !.urlQueue = <<>>, !.qCh = TRUE,
                !.hist.suppressed = TRUE]
       ELSE l1

\* third part: a queue that repeats one URL is cleared
suppressSame(l1, r) ==
    IF r.loading /\ Len(r.urlQueue) > SameMinLen
       /\ \A i \in 1..Len(r.urlQueue) : r.urlQueue[i] = r.urlQueue[1]
       THEN [addLog(l1, "warning") EXCEPT
                !.urlQueueRef = <<>>, !.urlQueue = <<>>, !.qCh = TRUE,
                !.hist.suppressed = TRUE]
       ELSE l1

\* useEffect[loading, urlQueue]: start processing, loop suppression
QueueEffect(s, r) == suppressSame(suppressLoop(startProcessing(s, r), r), r)

\* useEffect[loading, urlQueue.length, isProcessingRef.current, images.length]
CompletionEffect(s, r) ==
    IF r.loading /\ Len(r.urlQueue) = 0 /\ ~s.isProcessingRef
       THEN [s EXCEPT !.settleTimer = TRUE]
       ELSE s

\* The cleanups of the queue effect and of the completion effect.
cleanupEffects(r, e5, e6) ==
    [(IF e5 /\ r.queueProcessorTimeoutRef # 0
         THEN clearTimeout(r, r.queueProcessorTimeoutRef) ELSE r)
       EXCEPT !.settleTimer = IF e6 THEN FALSE ELSE @]

effect1(c, r, e) == IF e THEN SyncLoadingEffect(c, r) ELSE c
effect2(c, r, e) == IF e THEN SyncMaxPagesEffect(c, r) ELSE c
effect3(c, r, e) == IF e THEN SyncQueueEffect(c, r) ELSE c
effect4(c, r, e) == IF e THEN SyncVisitedEffect(c, r) ELSE c
effect5(c, r, e) == IF e THEN QueueEffect(c, r) ELSE c
effect6(c, r, e) == IF e THEN CompletionEffect(c, r) ELSE c

\* One render of pending updates s against the previous render prev, then
\* the cleanups and the effects whose dependencies changed, in order.
RECURSIVE Flush(_, _)
Flush(prev, s) ==
    IF ~s.dirty THEN s
    ELSE LET e1 == s.loading # prev.loading
             e2 == s.crawlSettings.maxPages # prev.maxPages
             e5 == e1 \/ s.qCh
             e6 == \/ e1
                   \/ Len(s.urlQueue) # prev.qLen
                   \/ s.isProcessingRef # prev.proc
                   \/ Len(s.images) # prev.imgLen
         IN Flush([loading |-> s.loading, qLen |-> Len(s.urlQueue),
                   imgLen |-> Len(s.images), maxPages |-> s.crawlSettings.maxPages,
                   proc |-> s.isProcessingRef],
                  effect6(effect5(effect4(effect3(effect2(effect1(
                      cleanupEffects([s EXCEPT !.dirty = FALSE, !.qCh = FALSE, !.vCh = FALSE,
                                               !.renderedProcessing = s.isProcessingRef],
                                     e5, e6),
                      s, e1), s, e2), s, s.qCh), s, s.vCh), s, e5), s, e6))

Commit(s) ==
    /\ url' = s.url
    /\ error' = s.error
    /\ probe' = s.probe
    /\ proxy' = s.proxy
    /\ images' = s.images
    /\ failedImages' = s.failedImages
    /\ imageTypeFilter' = s.imageTypeFilter
    /\ loading' = s.loading
    /\ visitedUrls' = s.visitedUrls
    /\ urlQueue' = s.urlQueue
    /\ crawlSettings' = s.crawlSettings
    /\ currentStats' = s.currentStats
    /\ crawlLogs' = s.crawlLogs
    /\ isProcessingRef' = s.isProcessingRef
    /\ loadingRef' = s.loadingRef
    /\ queueProcessorTimeoutRef' = s.queueProcessorTimeoutRef
    /\ pagesVisitedRef' = s.pagesVisitedRef
    /\ maxPagesRef' = s.maxPagesRef
    /\ visitedUrlsRef' = s.visitedUrlsRef
    /\ urlQueueRef' = s.urlQueueRef
    /\ tasks' = s.tasks
    /\ timers' = s.timers
    /\ settleTimer' = s.settleTimer
    /\ renderedProcessing' = s.renderedProcessing
    /\ hist' = s.hist

\* A handler's result, rendered.
Run(s) == Commit(Flush(Rendered, s))

----------------------------------------------------------------------------
(* Handlers *)

NoHist == [stopped |-> FALSE, fetched |-> {}, refetch |-> FALSE,
           fetchAfterStop |-> FALSE, deqOver |-> FALSE, suppressed |-> FALSE,
           trace |-> FALSE, enq |-> <<>>, deq |-> <<>>,
           skipped |-> FALSE, noDelay |-> FALSE,
           parent |-> 0, hops |-> {}, depthOff |-> FALSE,
           starts |-> 0, downloads |-> 0]

\* Mutant: only the empty input is refused.
seedError_EmptyOnly(u) == IF u = Invalid THEN "Please enter a URL" ELSE ""

\* The message startCrawling returns with before it resets anything, "" = none.
seedError(u) ==
    IF u = Invalid THEN "Please enter a URL"
    ELSE IF ~isValidUrl(u) THEN "Please enter a valid URL"
    ELSE ""

\* Mutant: the image registry is kept.
startCrawling_KeepsImages(s) ==
    IF seedError(s.url) # "" THEN setError(s, seedError(s.url))
    ELSE
    LET normalizedStartUrl == normalizeUrl(s.url, s.url)
        s1 == [setError(setLoading(s, TRUE), "") EXCEPT
                 !.dirty = TRUE,
                 !.failedImages = {},
                 !.isProcessingRef = FALSE,
                 !.pagesVisitedRef = 0,
                 !.maxPagesRef = s.crawlSettings.maxPages,
                 !.visitedUrlsRef = {},
                 !.visitedUrls = {},
                 !.vCh = TRUE,
                 !.urlQueueRef = <<normalizedStartUrl>>,
                 !.urlQueue = <<normalizedStartUrl>>,
                 !.qCh = TRUE,
                 !.currentStats = [pagesVisited |-> 0, imagesFound |-> 0, currentDepth |-> 0],
                 !.crawlLogs = <<>>,
                 !.hist = [NoHist EXCEPT !.starts = s.hist.starts + 1,
                                         !.downloads = s.hist.downloads]]
    IN addLog(addLog(s1, "info"), "info")

startCrawling(s) ==
    IF seedError(s.url) # "" THEN setError(s, seedError(s.url))
    ELSE
    LET normalizedStartUrl == normalizeUrl(s.url, s.url)
        s1 == [setError(setLoading(s, TRUE), "") EXCEPT
                 !.dirty = TRUE,
                 !.images = <<>>,
                 !.failedImages = {},
                 !.isProcessingRef = FALSE,
                 !.pagesVisitedRef = 0,
                 !.maxPagesRef = s.crawlSettings.maxPages,
                 !.visitedUrlsRef = {},
                 !.visitedUrls = {},
                 !.vCh = TRUE,
                 !.urlQueueRef = <<normalizedStartUrl>>,
                 !.urlQueue = <<normalizedStartUrl>>,
                 !.qCh = TRUE,
                 !.currentStats = [pagesVisited |-> 0, imagesFound |-> 0, currentDepth |-> 0],
                 !.crawlLogs = <<>>,
                 !.hist = [NoHist EXCEPT !.starts = s.hist.starts + 1,
                                         !.downloads = s.hist.downloads]]
    IN addLog(addLog(s1, "info"), "info")

stopCrawling(s) ==
    LET s1 == addLog([setLoading(s, FALSE) EXCEPT
                         !.urlQueueRef = <<>>, !.urlQueue = <<>>, !.qCh = TRUE,
                         !.hist.stopped = TRUE],
                     "info")
    IN IF s1.queueProcessorTimeoutRef # 0
          THEN [clearTimeout(s1, s1.queueProcessorTimeoutRef)
                   EXCEPT !.queueProcessorTimeoutRef = 0]
          ELSE s1

\* Mutant: links are extracted from a page at depth = maxDepth too.
AtMaxDepth_OffByOne(depth, settings) == depth > settings.maxDepth

\* depth >= crawlSettings.maxDepth
AtMaxDepth(depth, settings) == depth >= settings.maxDepth

\* Mutant: a failed fetch ends the session.
crawlPageFailed_Stops(s) == setLoading(addLog(s, "error"), FALSE)

\* !response.ok, or fetch threw and the catch block runs: the error is logged.
crawlPageFailed(s) == addLog(s, "error")

\* Mutant: every image of the page is counted, registered before or not.
registerImages_CountsAll(s, newImages) ==
    LET existingUrls == {s.images[i].url : i \in 1..Len(s.images)}
        IsNew(img) == img.url \notin existingUrls
        uniqueNewImages == SelectSeq(newImages, IsNew)
    IN [(IF Len(uniqueNewImages) > 0 THEN addLog(s, "success") ELSE s) EXCEPT
           !.images = @ \o uniqueNewImages,
           !.currentStats.imagesFound = @ + Len(newImages)]

\* setImages((prevImages) => ...): the images not yet in the registry are
\* appended and counted.
registerImages(s, newImages) ==
    LET existingUrls == {s.images[i].url : i \in 1..Len(s.images)}
        IsNew(img) == img.url \notin existingUrls
        uniqueNewImages == SelectSeq(newImages, IsNew)
    IN [(IF Len(uniqueNewImages) > 0 THEN addLog(s, "success") ELSE s) EXCEPT
           !.images = @ \o uniqueNewImages,
           !.currentStats.imagesFound = @ + Len(uniqueNewImages)]

\* Mutant: the new links are put in front of the queue.
enqueueLinks_Prepends(s4, links, pageUrl) ==
    LET IsFresh(link) ==
            /\ normalizeUrl(link, pageUrl) # Invalid
            /\ normalizeUrl(link, pageUrl) \notin s4.visitedUrlsRef
            /\ normalizeUrl(link, pageUrl) \notin Range(s4.urlQueueRef)
        newLinks == SelectSeq(links, IsFresh)
    IN IF Len(newLinks) > 0
          THEN [addLog(s4, "info") EXCEPT
                   !.urlQueue = newLinks \o @,
                   !.urlQueueRef = newLinks \o s4.urlQueue,
                   !.qCh = TRUE,
                   !.hist.enq = IF s4.hist.trace THEN @ \o newLinks ELSE @,
                   !.hist.hops = IF s4.hist.trace
                                    THEN @ \cup {<<newLinks[i], s4.hist.parent + 1>> :
                                                    i \in DOMAIN newLinks}
                                    ELSE @]
          ELSE addLog(s4, "info")

\* The links that are neither visited nor queued are appended to the queue.
enqueueLinks(s4, links, pageUrl) ==
    LET IsFresh(link) ==
            /\ normalizeUrl(link, pageUrl) # Invalid
            /\ normalizeUrl(link, pageUrl) \notin s4.visitedUrlsRef
            /\ normalizeUrl(link, pageUrl) \notin Range(s4.urlQueueRef)
        newLinks == SelectSeq(links, IsFresh)
    IN IF Len(newLinks) > 0
          THEN [addLog(s4, "info") EXCEPT
                   !.urlQueue = @ \o newLinks,
                   !.urlQueueRef = s4.urlQueue \o newLinks,
                   !.qCh = TRUE,
                   !.hist.enq = IF s4.hist.trace THEN @ \o newLinks ELSE @,
                   !.hist.hops = IF s4.hist.trace
                                    THEN @ \cup {<<newLinks[i], s4.hist.parent + 1>> :
                                                    i \in DOMAIN newLinks}
                                    ELSE @]
          ELSE addLog(s4, "info")

\* crawlPage returns after its fetch without awaiting the delay; the
\* history notes it for a page of the running session.
crawlPageReturned(s, t) ==
    [st |-> [s EXCEPT !.hist.skipped = @ \/ (s.hist.trace /\ t.session = s.hist.starts)],
     done |-> TRUE]

\* crawlPage once the images are registered (state s3).
crawlPageLinks(s3, t, resp) ==
    IF AtMaxDepth(t.depth, t.cl.settings)
       THEN crawlPageReturned(addLog(s3, "info"), t)
    ELSE IF LimitReached(s3)
       THEN crawlPageReturned(addLog(s3, "warning"), t)
    ELSE [st |-> enqueueLinks(addLog([s3 EXCEPT !.hist.parent = IF s3.hist.trace
                                                                     THEN t.depth ELSE @],
                                     "info"),
                              extractLinks(resp.links, t.pageUrl, t.cl.settings),
                              t.pageUrl),
          done |-> FALSE]

\* crawlPage from the fetch response to its next await or its return.
\* done: crawlPage returned, FALSE: it awaits the delay.
crawlPageResponse(s, t, resp) ==
    IF ~resp.ok
       THEN crawlPageReturned(crawlPageFailed(s), t)
    ELSE crawlPageLinks(
             registerImages(addLog(addLog(s, "success"), "info"),
                            extractImagesFromHtml(resp.imgs, t.pageUrl, t.cl.settings)),
             t, resp)

\* The callback of a processQueue timer.
timerCallback(s, t) ==
    IF t.kind = "resched"
       THEN processQueue([s EXCEPT !.isProcessingRef = FALSE], t.cl)
       ELSE processQueue(s, t.cl)

\* The callback of the completion effect's timer.
completionCallback(s) == addLog(setLoading(s, FALSE), "success")

Selected(imgs) == {i \in 1..Len(imgs) : imgs[i].selected}

\* filterImages(): the records the grid shows, in registry order.
filterImages(imgs, filter) ==
    LET Shown(img) == img.type = filter
    IN IF filter = "" THEN imgs ELSE SelectSeq(imgs, Shown)

\* handleImageError(url, index): index is the position in the grid (from 1).
handleImageError(s, imgUrl, index) ==
    addLog([s EXCEPT
              !.failedImages = @ \cup {imgUrl},
              !.images = IF index <= Len(@) THEN [@ EXCEPT ![index].loadFailed = TRUE] ELSE @,
              !.dirty = TRUE],
           "error")

\* retryImage(index): index is the position in the grid (from 1).
retryImage(s, index) ==
    IF index > Len(s.images) THEN s
    ELSE addLog([s EXCEPT
                   !.images = [@ EXCEPT ![index].loadFailed = FALSE,
                                        ![index].retryCount = @ + 1],
                   !.failedImages = @ \ {s.images[index].url},
                   !.dirty = TRUE],
                "info")

----------------------------------------------------------------------------
(* Actions *)

NoProbe == [op |-> "none"]
NoRequest == [route |-> "none"]

\* The component as mounted, apart from the URL, the settings and the probe.
Mounted ==
    /\ error = ""
    /\ images = <<>>
    /\ failedImages = {}
    /\ imageTypeFilter = ""
    /\ loading = FALSE
    /\ visitedUrls = {}
    /\ urlQueue = <<>>
    /\ currentStats = [pagesVisited |-> 0, imagesFound |-> 0, currentDepth |-> 0]
    /\ crawlLogs = <<>>
    /\ isProcessingRef = FALSE
    /\ loadingRef = FALSE
    /\ queueProcessorTimeoutRef = 0
    /\ pagesVisitedRef = 0
    /\ maxPagesRef = crawlSettings.maxPages
    /\ visitedUrlsRef = {}
    /\ urlQueueRef = <<>>
    /\ tasks = {}
    /\ timers = {}
    /\ settleTimer = FALSE
    /\ renderedProcessing = FALSE
    /\ hist = NoHist

Init ==
    /\ url \in Seeds
    /\ crawlSettings \in SettingsChoices
    /\ probe = NoProbe
    /\ proxy = NoRequest
    /\ Mounted

\* The Start Crawling button (shown while not loading).
Start ==
    /\ ~loading
    /\ hist.starts < MaxStarts
    /\ Run(startCrawling(St))

\* The Stop Crawling button (shown while loading).
Stop ==
    /\ loading
    /\ Run(stopCrawling(St))

\* The page proxy answers a fetch.
FetchDone ==
    \E t \in tasks : \E resp \in Responses :
        /\ t.pc = "fetch"
        /\ LET c == crawlPageResponse([St EXCEPT !.tasks = @ \ {t}], t, resp)
           IN IF c.done
                 THEN Run(scheduleNext(c.st, t.cl))
                 ELSE Run([c.st EXCEPT !.tasks = @ \cup {[t EXCEPT !.pc = "delay"]}])

\* The inter-request delay of crawlPage ends.
DelayDone ==
    \E t \in tasks :
        /\ t.pc = "delay"
        /\ Run(scheduleNext([St EXCEPT !.tasks = @ \ {t}], t.cl))

\* A processQueue timer expires.
TimerFire ==
    \E t \in timers :
        Run(timerCallback([St EXCEPT !.timers = @ \ {t}], t))

\* The completion effect's timer expires.
SettleFire ==
    /\ settleTimer
    /\ Run(completionCallback([St EXCEPT !.settleTimer = FALSE]))

\* downloadSelected up to its first await.  One selected image is handed
\* to the browser at once and loading is back to false before any render;
\* two or more are fetched for the zip file while loading stays true.
downloadSelected(s) ==
    LET s1 == addLog(s, "info")
    IN IF Cardinality(Selected(s.images)) = 1
          THEN addLog(s1, "success")
          ELSE addLog([setLoading(s1, TRUE) EXCEPT
                          !.tasks = @ \cup {[id |-> FreeId({t.id : t \in s.tasks}),
                                             pc |-> "download", pageUrl |-> Invalid,
                                             depth |-> 0, cl |-> Closure(s),
                                             late |-> FALSE]}],
                      "info")

\* The Download Selected button (disabled while loading or nothing selected).
DownloadStart ==
    /\ ~loading
    /\ Selected(images) # {}
    /\ hist.downloads < MaxDownloads
    /\ Run(downloadSelected([St EXCEPT !.hist.downloads = @ + 1]))

\* downloadSelected after the zip has been generated: finally setLoading(false).
DownloadDone ==
    \E t \in tasks :
        /\ t.pc = "download"
        /\ Run(setLoading(addLog(addLog([St EXCEPT !.tasks = @ \ {t}], "info"), "success"),
                          FALSE))

Next ==
    \/ Start
    \/ Stop
    \/ FetchDone
    \/ DelayDone
    \/ TimerFire
    \/ SettleFire
    \/ DownloadStart
    \/ DownloadDone

Spec == Init /\ [][Next]_vars

----------------------------------------------------------------------------
(* The crawl with the URL input and the settings dialog in use, on pages   *)
(* that link to another host and carry SVG and data: images.               *)

ImgS == U("a", <<"s.svg">>, 0)
OtherX == U("b", <<"x">>, 0)
BadSeed == Str("relpath", "", "", <<"x">>, 0, "", "")

\* src="data:..."
DataSrc == [kind |-> "data", target |-> Invalid]

WideSeeds == {Root, Invalid, BadSeed}
WideHrefs == {Abs(PageX), Abs(OtherX)}
WideSrcs == {Abs(ImgS), DataSrc}

WideSettings ==
    {[maxDepth |-> MaxDepthChoice, maxPages |-> MaxPagesChoice,
      includeExternalDomains |-> e, includeSvgImages |-> g, maxRetries |-> 1] :
        e \in BOOLEAN, g \in BOOLEAN}

WideResponses ==
    {[ok |-> FALSE, links |-> <<>>, imgs |-> <<>>]} \cup
    {[ok |-> TRUE, links |-> l, imgs |-> i] :
        l \in SeqsUpTo(WideHrefs, 1), i \in SeqsUpTo(WideSrcs, 1)}

InitWide ==
    /\ url \in WideSeeds
    /\ crawlSettings \in WideSettings
    /\ probe = NoProbe
    /\ proxy = NoRequest
    /\ Mounted

\* The URL input (disabled while loading).
SetUrl ==
    /\ ~loading
    /\ \E u \in WideSeeds :
           /\ u # url
           /\ Run([St EXCEPT !.url = u, !.dirty = TRUE])

\* The switches of the settings dialog (its button is disabled while loading).
SetSettings ==
    /\ ~loading
    /\ \/ Run([St EXCEPT !.crawlSettings.includeExternalDomains = ~@, !.dirty = TRUE])
       \/ Run([St EXCEPT !.crawlSettings.includeSvgImages = ~@, !.dirty = TRUE])

\* The page proxy answers a fetch.
FetchWide ==
    \E t \in tasks : \E resp \in WideResponses :
        /\ t.pc = "fetch"
        /\ LET c == crawlPageResponse([St EXCEPT !.tasks = @ \ {t}], t, resp)
           IN IF c.done
                 THEN Run(scheduleNext(c.st, t.cl))
                 ELSE Run([c.st EXCEPT !.tasks = @ \cup {[t EXCEPT !.pc = "delay"]}])

NextWide ==
    \/ Start
    \/ Stop
    \/ SetUrl
    \/ SetSettings
    \/ FetchWide
    \/ DelayDone
    \/ TimerFire
    \/ SettleFire

SpecWide == InitWide /\ [][NextWide]_vars

----------------------------------------------------------------------------
(* The image grid: a crawl of the seed page and of one page it links to    *)
(* registers images of two types; the grid shows them through the type     *)
(* filter, their img elements fail to load and the Retry buttons are       *)
(* clicked.                                                                *)

MaxRetriesChoice == 2   \* largest maxRetries setting
MaxRetryCount == 2      \* retries of one record the model follows

\* What the page proxy answers: a page with at most one anchor, to /x, and
\* img elements for a png and an svg image.
GridResponses ==
    {[ok |-> TRUE, links |-> l, imgs |-> i] :
        l \in SeqsUpTo({Abs(PageX)}, 1), i \in SeqsUpTo({Abs(ImgP), Abs(ImgS)}, MaxImgs)}

InitGrid ==
    /\ url = Root
    /\ crawlSettings \in
          {[maxDepth |-> MaxDepthChoice, maxPages |-> MaxPagesChoice,
            includeExternalDomains |-> FALSE, includeSvgImages |-> TRUE,
            maxRetries |-> m] : m \in 1..MaxRetriesChoice}
    /\ probe = NoProbe
    /\ proxy = NoRequest
    /\ Mounted

\* The page proxy answers a fetch.
FetchGrid ==
    \E t \in tasks : \E resp \in GridResponses :
        /\ t.pc = "fetch"
        /\ LET c == crawlPageResponse([St EXCEPT !.tasks = @ \ {t}], t, resp)
           IN IF c.done
                 THEN Run(scheduleNext(c.st, t.cl))
                 ELSE Run([c.st EXCEPT !.tasks = @ \cup {[t EXCEPT !.pc = "delay"]}])

\* The select element of the type filter.
SetFilter ==
    \E f \in {"", "png", "svg"} :
        /\ f # imageTypeFilter
        /\ Run([St EXCEPT !.imageTypeFilter = f, !.dirty = TRUE])

\* onError of an img element of the grid (shown for a record not marked failed).
ImageError ==
    \E index \in 1..Len(filterImages(images, imageTypeFilter)) :
        /\ ~filterImages(images, imageTypeFilter)[index].loadFailed
        /\ Run(handleImageError(St, filterImages(images, imageTypeFilter)[index].url, index))

\* A Retry button of the grid (shown for a failed record with retries left).
Retry ==
    \E index \in 1..Len(filterImages(images, imageTypeFilter)) :
        /\ filterImages(images, imageTypeFilter)[index].loadFailed
        /\ filterImages(images, imageTypeFilter)[index].retryCount < crawlSettings.maxRetries
        /\ \A i \in 1..Len(images) : images[i].retryCount < MaxRetryCount
        /\ Run(retryImage(St, index))

NextGrid ==
    \/ Start
    \/ FetchGrid
    \/ DelayDone
    \/ TimerFire
    \/ SettleFire
    \/ SetFilter
    \/ ImageError
    \/ Retry

SpecGrid == InitGrid /\ [][NextGrid]_vars

----------------------------------------------------------------------------
(* The pure functions on their own: the initial state holds the arguments  *)
(* of one call, the actions make the call.                                  *)

MaxSlashes == 2      \* slashes that may end the path of an input URL
MaxQueueLen == 12    \* entries of a queue handed to the queue effect

PathChoices == {<<>>, <<"x">>, <<"X">>}
Queries == {"", "?q=1"}
Frags == {"", "#f"}

AbsUrls ==
    {Str("abs", "https", h, p, t, q, fr) :
        h \in {"a", ""}, p \in PathChoices, t \in 0..MaxSlashes, q \in Queries, fr \in Frags}

OtherUrls ==
    {Str("abs", "ftp", "a", <<"x">>, 0, "", ""), Invalid} \cup
    {Str("protorel", "", h, p, t, "", "") : h \in {"b", ""}, p \in PathChoices, t \in 0..1} \cup
    {Str("pathabs", "", "", p, t, q, "#f") : p \in PathChoices, t \in 0..1, q \in Queries} \cup
    {Str("relpath", "", "", <<g>>, 0, "", "") : g \in {"x", "http-guide"}}

Bases == {Root, U("a", <<"x", "y">>, 0), U("b", <<"x">>, 1), Invalid}

\* What stands in an href attribute: a value the prefix tests of
\* extractLinks let through (its URL string is the target), no or an empty
\* attribute, "#...", "javascript:...", "mailto:...", "tel:..." or "/".
Href(kind) == [kind |-> kind, target |-> Invalid]

Anchors ==
    {Href("none"), Href("hash"), Href("javascript"), Href("mailto"), Href("tel"),
     Href("slash"), Abs(PageX), Abs(U("a", <<"X">>, 1)), Abs(U("a", <<"x">>, 2)),
     Abs(U("b", <<"x">>, 0)), Abs(Str("pathabs", "", "", <<"x", "y">>, 0, "", "#f")),
     Abs(Str("abs", "ftp", "a", <<"x">>, 0, "", ""))}

FnSettings ==
    {[maxDepth |-> 2, maxPages |-> 2, includeExternalDomains |-> e,
      includeSvgImages |-> FALSE, maxRetries |-> 1] : e \in BOOLEAN}

NormalizeInputs ==
    {[op |-> "normalize", a |-> a, b |-> b, base |-> Root] : a \in AbsUrls, b \in AbsUrls}
    \cup {[op |-> "normalize", a |-> a, b |-> a, base |-> base] : a \in OtherUrls, base \in Bases}

ExtractInputs ==
    {[op |-> "extract", elems |-> l, base |-> base, settings |-> cs] :
        l \in SeqsUpTo(Anchors, MaxLinks), base \in {Root, PageX}, cs \in FnSettings}

\* The queues the queue effect is run on: every queue of up to
\* SameMinLen + 1 entries over two URLs, and the queues of up to MaxQueueLen
\* entries that cycle through the first d of six URLs.
QueueInputs ==
    {[op |-> "queue", queue |-> q] : q \in SeqsUpTo({Root, PageX}, SameMinLen + 1)}
    \cup {[op |-> "queue",
           queue |-> [i \in 1..n |-> U(<<"a", "b", "c", "d", "e", "f">>[(i % d) + 1], <<>>, 0)]] :
              n \in 1..MaxQueueLen, d \in 1..6}

InitFn ==
    /\ url = Root
    /\ crawlSettings \in SettingsChoices
    /\ crawlSettings.maxDepth = MaxDepthChoice
    /\ crawlSettings.maxPages = MaxPagesChoice
    /\ probe \in NormalizeInputs \cup ExtractInputs \cup QueueInputs
    /\ proxy = NoRequest
    /\ Mounted

crawlVars ==
    <<url, error, images, failedImages, imageTypeFilter, loading, visitedUrls, urlQueue, crawlSettings, currentStats,
      crawlLogs, isProcessingRef, loadingRef, queueProcessorTimeoutRef,
      pagesVisitedRef, maxPagesRef, visitedUrlsRef, urlQueueRef, tasks, timers,
      settleTimer, renderedProcessing, hist>>

\* normalizeUrl(a, base) and normalizeUrl(b, base)
NormalizeCall ==
    /\ probe.op = "normalize"
    /\ probe' = [op |-> "normalized", a |-> probe.a, b |-> probe.b, base |-> probe.base,
                 ka |-> normalizeUrl(probe.a, probe.base),
                 kb |-> normalizeUrl(probe.b, probe.base)]
    /\ UNCHANGED <<crawlVars, proxy>>

\* normalizeUrl(k, k) of a key k that normalizeUrl returned
RenormalizeCall ==
    /\ probe.op = "normalized"
    /\ probe.ka # Invalid
    /\ probe' = [op |-> "renormalized", a |-> probe.a, base |-> probe.base, ka |-> probe.ka,
                 kka |-> normalizeUrl(probe.ka, probe.ka)]
    /\ UNCHANGED <<crawlVars, proxy>>

\* extractLinks(html, baseUrl) under the settings of the render
ExtractLinksCall ==
    /\ probe.op = "extract"
    /\ probe' = [op |-> "links", elems |-> probe.elems, base |-> probe.base,
                 settings |-> probe.settings,
                 links |-> extractLinks(probe.elems, probe.base, probe.settings)]
    /\ UNCHANGED <<crawlVars, proxy>>

\* The body of useEffect[loading, urlQueue] in a render of a running
\* session whose queue is probe.queue, while a page is being processed.
QueueEffectCall ==
    /\ probe.op = "queue"
    /\ probe' = [op |-> "suppressed", queue |-> probe.queue,
                 out |-> QueueEffect([St EXCEPT !.loading = TRUE, !.loadingRef = TRUE,
                                                !.isProcessingRef = TRUE,
                                                !.urlQueue = probe.queue,
                                                !.urlQueueRef = probe.queue],
                                     [St EXCEPT !.loading = TRUE, !.urlQueue = probe.queue])]
    /\ UNCHANGED <<crawlVars, proxy>>

NextFn ==
    \/ NormalizeCall
    \/ RenormalizeCall
    \/ ExtractLinksCall
    \/ QueueEffectCall

SpecFn == InitFn /\ [][NextFn]_vars

----------------------------------------------------------------------------
(* The order of the queue: a crawl of up to four pages whose anchors name  *)
(* three pages, with the keys recorded as they are enqueued and dequeued.  *)

FifoDepth == 3   \* the maxDepth setting of this crawl
FifoPages == 4   \* the maxPages setting of this crawl

\* What the page proxy answers: a failure, or a page without images whose
\* anchors name /x, /x/y and /z.
FifoResponses ==
    {[ok |-> FALSE, links |-> <<>>, imgs |-> <<>>]} \cup
    {[ok |-> TRUE, links |-> l, imgs |-> <<>>] :
        l \in SeqsUpTo({Abs(PageX), Abs(PageXY), Abs(U("a", <<"z">>, 0))}, MaxLinks)}

InitFifo ==
    /\ url = Root
    /\ crawlSettings = [maxDepth |-> FifoDepth, maxPages |-> FifoPages,
                        includeExternalDomains |-> FALSE, includeSvgImages |-> FALSE,
                        maxRetries |-> 1]
    /\ probe = NoProbe
    /\ proxy = NoRequest
    /\ Mounted

\* The Start Crawling button; the order history of the session begins with
\* the seed that startCrawling put into the queue.
StartFifo ==
    /\ ~loading
    /\ hist.starts < MaxStarts
    /\ Run([startCrawling(St) EXCEPT
                !.hist.trace = TRUE,
                !.hist.enq = startCrawling(St).urlQueueRef,
                !.hist.hops = {<<startCrawling(St).urlQueueRef[i], 1>> :
                                  i \in DOMAIN startCrawling(St).urlQueueRef}])

\* The page proxy answers a fetch.
FetchFifo ==
    \E t \in tasks : \E resp \in FifoResponses :
        /\ t.pc = "fetch"
        /\ LET c == crawlPageResponse([St EXCEPT !.tasks = @ \ {t}], t, resp)
           IN IF c.done
                 THEN Run(scheduleNext(c.st, t.cl))
                 ELSE Run([c.st EXCEPT !.tasks = @ \cup {[t EXCEPT !.pc = "delay"]}])

NextFifo ==
    \/ StartFifo
    \/ Stop
    \/ FetchFifo
    \/ DelayDone
    \/ TimerFire
    \/ SettleFire

SpecFifo == InitFifo /\ [][NextFifo]_vars

----------------------------------------------------------------------------
(* The crawl of a seed page whose anchors are 20 repetitions of href="/".  *)

LoopResponses ==
    {[ok |-> TRUE, links |-> [a \in 1..20 |-> Href("slash")], imgs |-> i] :
        i \in SeqsUpTo(Srcs, MaxImgs)}

\* The page proxy answers a fetch.
FetchLoop ==
    \E t \in tasks : \E resp \in LoopResponses :
        /\ t.pc = "fetch"
        /\ LET c == crawlPageResponse([St EXCEPT !.tasks = @ \ {t}], t, resp)
           IN IF c.done
                 THEN Run(scheduleNext(c.st, t.cl))
                 ELSE Run([c.st EXCEPT !.tasks = @ \cup {[t EXCEPT !.pc = "delay"]}])

NextLoop ==
    \/ Start
    \/ Stop
    \/ FetchLoop
    \/ DelayDone
    \/ TimerFire
    \/ SettleFire

SpecLoop == Init /\ [][NextLoop]_vars

----------------------------------------------------------------------------
(* The image proxy, src/app/api/image-proxy/route.ts: one request.  The    *)
(* handler's fetches are answered by the upstream server: ok, not ok, or   *)
(* the fetch throws (a TypeError for a network failure, an AbortError for  *)
(* the timeout).  events: the fetches that were answered and the backoff   *)
(* waits that were started, in order.                                      *)

\* searchParams.get("url") of a request without the parameter
Missing == Str("null", "", "", <<>>, 0, "", "")

YouTubeHosts == {"img.youtube.com", "i.ytimg.com"}

\* Mutant: the variant that is most often there comes first.
getYouTubeThumbnailUrls_HqFirst(videoId) ==
    <<U("img.youtube.com", <<"vi", videoId, "hqdefault.jpg">>, 0),
      U("img.youtube.com", <<"vi", videoId, "maxresdefault.jpg">>, 0),
      U("img.youtube.com", <<"vi", videoId, "mqdefault.jpg">>, 0),
      U("img.youtube.com", <<"vi", videoId, "sddefault.jpg">>, 0),
      U("img.youtube.com", <<"vi", videoId, "default.jpg">>, 0)>>

getYouTubeThumbnailUrls(videoId) ==
    <<U("img.youtube.com", <<"vi", videoId, "maxresdefault.jpg">>, 0),
      U("img.youtube.com", <<"vi", videoId, "hqdefault.jpg">>, 0),
      U("img.youtube.com", <<"vi", videoId, "mqdefault.jpg">>, 0),
      U("img.youtube.com", <<"vi", videoId, "sddefault.jpg">>, 0),
      U("img.youtube.com", <<"vi", videoId, "default.jpg">>, 0)>>

\* urlObj.pathname.split("/")
pathParts(u) == <<"">> \o u.segs \o [i \in 1..PathnameTs(u) |-> ""]

isYouTubeThumbnail(u) ==
    IF ~Parses(u) \/ u.host \notin YouTubeHosts
       THEN [isYouTube |-> FALSE, videoId |-> ""]
    ELSE LET found == {i \in 1..Len(pathParts(u)) : pathParts(u)[i] = "vi"}
             videoIdIndex == CHOOSE i \in found : \A j \in found : i <= j
         IN IF found # {} /\ Len(pathParts(u)) > videoIdIndex
               THEN [isYouTube |-> TRUE, videoId |-> pathParts(u)[videoIdIndex + 1]]
               ELSE [isYouTube |-> FALSE, videoId |-> ""]

\* parsedUrl.pathname.toLowerCase().endsWith(".svg")
isSvg(u) == u.segs # <<>> /\ u.ts = 0 /\ LowerSeg(u.segs[Len(u.segs)]) = "s.svg"

MaxFetchRetries == 2
BackoffBase == 500

FetchOutcomes ==
    {[kind |-> "ok", ctype |-> c] : c \in {"", "image/png", "image/svg+xml"}} \cup
    {[kind |-> k, ctype |-> ""] : k \in {"notok", "TypeError", "AbortError"}}

ImageRequest(p) ==
    [route |-> "image", pc |-> "start", url |-> p, events |-> <<>>, attempt |-> 0,
     variant |-> 0, response |-> "none", status |-> 0, ctype |-> "", served |-> Invalid]

FetchEvent(u, o) == [op |-> "fetch", url |-> u, result |-> o.kind, ms |-> 0]

\* The catch block of GET: 400 for a TypeError, 500 otherwise.
imageError(q, kind) ==
    [q EXCEPT !.pc = "done", !.status = IF kind = "TypeError" THEN 400 ELSE 500,
              !.served = Invalid, !.ctype = "application/json"]

\* GET up to its first await.
imageGET(q) ==
    IF q.url \in {Missing, Invalid}
       THEN [q EXCEPT !.pc = "done", !.status = 400, !.ctype = "application/json"]
    ELSE IF ~Parses(q.url) THEN imageError(q, "TypeError")
    ELSE IF isYouTubeThumbnail(q.url).isYouTube /\ isYouTubeThumbnail(q.url).videoId # ""
       THEN [q EXCEPT !.pc = "thumbnail", !.variant = 1]
    ELSE [q EXCEPT !.pc = "fetch", !.attempt = 0]

\* The loop over the thumbnail URLs, from the answer to one fetch to the next
\* fetch, to the break or to the end of the loop.
thumbnailFetched(q, thumbnailUrls, o) ==
    LET response == IF o.kind \in {"ok", "notok"} THEN o.kind ELSE q.response
        q1 == [q EXCEPT !.events = Append(@, FetchEvent(thumbnailUrls[q.variant], o)),
                        !.response = response]
    IN IF o.kind = "ok"
          THEN [q1 EXCEPT !.pc = "body", !.served = thumbnailUrls[q.variant],
                          !.ctype = IF o.ctype = "" THEN "image/jpeg" ELSE o.ctype]
       ELSE IF q.variant < Len(thumbnailUrls)
          THEN [q1 EXCEPT !.variant = @ + 1]
       ELSE IF response # "ok"
          THEN imageError(q1, "Error")
       ELSE [q1 EXCEPT !.pc = "body"]

RECURSIVE Pow2(_)
Pow2(n) == IF n = 0 THEN 1 ELSE 2 * Pow2(n - 1)

\* fetchWithRetry from the answer to one fetch to its next await, its return
\* or its throw.
fetchWithRetry(q, o) ==
    LET q1 == [q EXCEPT !.events = Append(@, FetchEvent(q.url, o))]
    IN IF o.kind = "ok"
          THEN [q1 EXCEPT !.pc = "body", !.served = q.url,
                          !.ctype = IF isSvg(q.url) \/ o.ctype = "image/svg+xml"
                                       THEN "image/svg+xml"
                                    ELSE IF o.ctype = "" THEN "image/jpeg" ELSE o.ctype]
       ELSE IF o.kind = "notok"
          THEN IF q.attempt = MaxFetchRetries
                  THEN imageError(q1, "Error")
                  ELSE [q1 EXCEPT !.attempt = @ + 1]
       ELSE IF q.attempt = MaxFetchRetries
          THEN imageError(q1, o.kind)
       ELSE [q1 EXCEPT !.pc = "backoff",
                       !.events = Append(@, [op |-> "wait", url |-> Invalid, result |-> "",
                                             ms |-> BackoffBase * Pow2(q.attempt)])]

\* response.text() or response.arrayBuffer(), and the response of GET.
imageBody(q, read) ==
    IF read THEN [q EXCEPT !.pc = "done", !.status = 200]
            ELSE imageError(q, "TypeError")

ImageParams ==
    {Missing, Invalid, BadSeed, ImgP, ImgS,
     U("img.youtube.com", <<"vi", "abc123", "hqdefault.jpg">>, 0),
     U("i.ytimg.com", <<"vi", "abc123", "default.jpg">>, 0),
     U("i.ytimg.com", <<"vi_webp", "abc123", "default.webp">>, 0),
     U("img.youtube.com", <<"vi">>, 1)}

InitImageProxy ==
    /\ url = Root
    /\ crawlSettings \in SettingsChoices
    /\ crawlSettings.maxDepth = MaxDepthChoice
    /\ crawlSettings.maxPages = MaxPagesChoice
    /\ probe = NoProbe
    /\ proxy \in {ImageRequest(p) : p \in ImageParams}
    /\ Mounted

\* GET /api/image-proxy?url=...
ImageProxyGET ==
    /\ proxy.route = "image"
    /\ proxy.pc = "start"
    /\ proxy' = imageGET(proxy)
    /\ UNCHANGED <<crawlVars, probe>>

\* A fetch of the thumbnail loop is answered.
ThumbnailFetched ==
    /\ proxy.route = "image"
    /\ proxy.pc = "thumbnail"
    /\ \E o \in FetchOutcomes :
           proxy' = thumbnailFetched(
                        proxy, getYouTubeThumbnailUrls(isYouTubeThumbnail(proxy.url).videoId), o)
    /\ UNCHANGED <<crawlVars, probe>>

\* A fetch of fetchWithRetry is answered.
ImageFetched ==
    /\ proxy.route = "image"
    /\ proxy.pc = "fetch"
    /\ \E o \in FetchOutcomes : proxy' = fetchWithRetry(proxy, o)
    /\ UNCHANGED <<crawlVars, probe>>

\* The backoff timer of fetchWithRetry expires: the next attempt.
BackoffDone ==
    /\ proxy.route = "image"
    /\ proxy.pc = "backoff"
    /\ proxy' = [proxy EXCEPT !.pc = "fetch", !.attempt = @ + 1]
    /\ UNCHANGED <<crawlVars, probe>>

\* The body of the response is read, or reading it fails.
ImageBodyRead ==
    /\ proxy.route = "image"
    /\ proxy.pc = "body"
    /\ \E read \in BOOLEAN : proxy' = imageBody(proxy, read)
    /\ UNCHANGED <<crawlVars, probe>>

NextImageProxy ==
    \/ ImageProxyGET
    \/ ThumbnailFetched
    \/ ImageFetched
    \/ BackoffDone
    \/ ImageBodyRead

SpecImageProxy == InitImageProxy /\ [][NextImageProxy]_vars

----------------------------------------------------------------------------
(* The page proxy, src/unnamed/part_001: one request.  upstream: the       *)
(* status of the response that fetch resolved with; threw: the call of the *)
(* try block that threw.                                                   *)

\* The statuses the upstream server answers with.
UpstreamStatuses == {200, 201, 204, 304, 403, 404, 500, 503}

\* The statuses for which the Response constructor throws a TypeError when
\* it is given a body, the empty string included.
NullBodyStatuses == {101, 103, 204, 205, 304}

PageRequest(p) ==
    [route |-> "page", pc |-> "start", url |-> p, upstream |-> 0, threw |-> "",
     status |-> 0, body |-> "", error |-> FALSE]

\* The catch block of GET.
pageError(q, call) ==
    [q EXCEPT !.pc = "done", !.status = 500, !.body = "", !.error = TRUE, !.threw = call]

\* GET up to its first await.
pageGET(q) ==
    IF q.url \in {Missing, Invalid}
       THEN [q EXCEPT !.pc = "done", !.status = 400, !.error = TRUE]
    ELSE IF ~Parses(q.url) THEN pageError(q, "URL")
    ELSE [q EXCEPT !.pc = "fetch"]

\* await fetch(url, ...): status 0 stands for a fetch that throws.
pageFetched(q, status) ==
    IF status = 0 THEN pageError(q, "fetch")
    ELSE [q EXCEPT !.pc = "text", !.upstream = status]

\* await response.text() and new NextResponse(text, {status: response.status}).
pageText(q, read, text) ==
    IF ~read THEN pageError(q, "text")
    ELSE IF q.upstream \in NullBodyStatuses THEN pageError(q, "NextResponse")
    ELSE [q EXCEPT !.pc = "done", !.status = q.upstream, !.body = text]

InitPageProxy ==
    /\ url = Root
    /\ crawlSettings \in SettingsChoices
    /\ crawlSettings.maxDepth = MaxDepthChoice
    /\ crawlSettings.maxPages = MaxPagesChoice
    /\ probe = NoProbe
    /\ proxy \in {PageRequest(p) : p \in {Missing, Invalid, BadSeed, Root, PageX, OtherX}}
    /\ Mounted

\* GET /api/proxy?url=...
PageProxyGET ==
    /\ proxy.route = "page"
    /\ proxy.pc = "start"
    /\ proxy' = pageGET(proxy)
    /\ UNCHANGED <<crawlVars, probe>>

\* The fetch of the page is answered, or it throws.
PageFetched ==
    /\ proxy.route = "page"
    /\ proxy.pc = "fetch"
    /\ \E status \in UpstreamStatuses \cup {0} : proxy' = pageFetched(proxy, status)
    /\ UNCHANGED <<crawlVars, probe>>

\* The body of the page is read, or reading it throws.
PageTextRead ==
    /\ proxy.route = "page"
    /\ proxy.pc = "text"
    /\ \E read \in BOOLEAN : \E text \in {"", "<html>", "Not Found"} : proxy' = pageText(proxy, read, text)
    /\ UNCHANGED <<crawlVars, probe>>

NextPageProxy ==
    \/ PageProxyGET
    \/ PageFetched
    \/ PageTextRead

SpecPageProxy == InitPageProxy /\ [][NextPageProxy]_vars

----------------------------------------------------------------------------
(* Claims *)

FetchTasks == {t \in tasks : t.pc = "fetch"}

\* C1: within a session the page proxy is asked at most once for each
\* normalized URL key: no fetch is issued for a key fetched since start().
C1_NoRefetch == ~hist.refetch

C3_VisitedCount ==
    /\ Cardinality(visitedUrlsRef) = pagesVisitedRef
    /\ Cardinality(visitedUrls) = currentStats.pagesVisited

C3_Witness ==
    /\ pagesVisitedRef = 2
    /\ Cardinality(visitedUrlsRef) = 2
    /\ currentStats.pagesVisited = 2

\* C4: no two records of the image registry have the same URL.
C4_UniqueImageUrls ==
    \A i, j \in 1..Len(images) : images[i].url = images[j].url => i = j

\* C5: after stop() no page fetch is issued until the next start().
C5_NoFetchAfterStop == ~hist.fetchAfterStop

\* C6: after stop() the pending queue is empty and stays empty until the
\* next start().
C6_QueueEmptyAfterStop == hist.stopped => (urlQueue = <<>> /\ urlQueueRef = <<>>)

\* C7: once stop() has returned and the fetches that were in flight have
\* completed, pagesVisited, imagesFound and the number of image records do
\* not change until the next start().
C7_FrozenAfterStop ==
    [][(/\ hist.stopped
        /\ hist'.stopped
        /\ \A t \in FetchTasks : t.late)
       => /\ currentStats'.pagesVisited = currentStats.pagesVisited
          /\ currentStats'.imagesFound = currentStats.imagesFound
          /\ Len(images') = Len(images)]_vars

\* C8: at most one page fetch is outstanding at any time.
C8_SingleFetch == Cardinality(FetchTasks) <= 1

\* C9: a running session with an empty queue and no fetch outstanding
\* completes without an external event: in every such state a timer of the
\* component or the inter-request delay is pending.
C9_IdleSessionCompletes ==
    (/\ loading
     /\ urlQueue = <<>>
     /\ FetchTasks = {}
     /\ \A t \in tasks : t.pc # "download")
    => (settleTimer \/ timers # {} \/ tasks # {})

C12_QueueFresh ==
    /\ \A i, j \in 1..Len(urlQueue) : urlQueue[i] = urlQueue[j] => i = j
    /\ \A i, j \in 1..Len(urlQueueRef) : urlQueueRef[i] = urlQueueRef[j] => i = j
    /\ Range(urlQueueRef) \cap visitedUrlsRef = {}

\* C13: normalize is idempotent: a key k that normalize returned is its own
\* key, normalize(k, k) = k.
C13_Idempotent == probe.op = "renormalized" => probe.kka = probe.ka

\* C14: two URLs that differ only in fragment, in path letter case or in a
\* trailing slash get the same key; the key keeps the query string and has
\* no fragment.
C14_CanonicalKey ==
    probe.op = "normalized" /\ probe.ka # Invalid /\ probe.kb # Invalid
    => /\ (/\ probe.a.scheme = probe.b.scheme
           /\ probe.a.host = probe.b.host
           /\ probe.a.query = probe.b.query
           /\ Len(probe.a.segs) = Len(probe.b.segs)
           /\ \A i \in 1..Len(probe.a.segs) :
                  LowerSeg(probe.a.segs[i]) = LowerSeg(probe.b.segs[i])
           /\ probe.a.ts - probe.b.ts \in {-1, 0, 1})
          => probe.ka = probe.kb
       /\ probe.ka.query = probe.a.query
       /\ probe.ka.frag = ""

\* C15: normalize resolves its input against base: its result is the key of
\* the URL that the input resolves to, and the sentinel when the input does
\* not resolve.
C15_Resolves ==
    probe.op = "normalized" => probe.ka = KeyOf(Resolve(probe.a, probe.base))

\* C16: start() with an empty or unparsable seed does not start the session,
\* and the step that reports the error leaves the visited set, the pending
\* queue, the image registry, the counters, the log and the running flag
\* as they were.
C16_InvalidSeedRejected ==
    /\ [](loading => isValidUrl(url))
    /\ [][(error' # error /\ error' # "")
           => /\ ~loading'
              /\ UNCHANGED <<loading, loadingRef, visitedUrls, visitedUrlsRef, urlQueue,
                             urlQueueRef, images, currentStats, pagesVisitedRef,
                             crawlLogs, tasks, timers, hist>>]_vars

\* The error was reported for a seed entered after a crawl that left pages,
\* images and log entries behind.
C16_Witness ==
    /\ error # ""
    /\ ~isValidUrl(url)
    /\ ~loading
    /\ ~hist.stopped
    /\ tasks = {}
    /\ images # <<>>
    /\ visitedUrls # {}
    /\ currentStats.pagesVisited > 0
    /\ crawlLogs # <<>>

\* C17: a page fetch that fails does not end the session: the step that
\* handles the failure logs an error, leaves the running flag, the page
\* count, the visited set and the pending queue as they were, and leaves the
\* scheduler's timer pending, which goes on to the next queued entry.
C17_FetchFailureNonFatal ==
    [][(/\ \E t \in FetchTasks : tasks' = tasks \ {t}
        /\ crawlLogs' # <<>>
        /\ Head(crawlLogs') = "error")
       => /\ loading' = loading
          /\ pagesVisitedRef' = pagesVisitedRef
          /\ visitedUrlsRef' = visitedUrlsRef
          /\ currentStats'.pagesVisited = currentStats.pagesVisited
          /\ visitedUrls' = visitedUrls
          /\ urlQueue' = urlQueue
          /\ \E tm \in timers' :
                 tm.id = queueProcessorTimeoutRef' /\ tm.kind = "resched"]_vars

\* The fetch of the second page has failed; the page is counted and in the
\* visited set, the session runs on and an entry is still queued.
C17_Witness ==
    /\ loading
    /\ ~hist.stopped
    /\ hist.downloads = 0
    /\ crawlLogs # <<>>
    /\ Head(crawlLogs) = "error"
    /\ tasks = {}
    /\ pagesVisitedRef = 2
    /\ PageX \in visitedUrlsRef
    /\ urlQueue # <<>>
    /\ timers # {}

\* C18: while a session runs with includeExternalDomains false, every URL
\* pending in the queue and every URL fetched since start() has the host of
\* the seed URL.
C18_SameHost ==
    loading /\ ~crawlSettings.includeExternalDomains
    => /\ \A i \in 1..Len(urlQueue) : urlQueue[i].host = url.host
       /\ \A k \in hist.fetched : k.host = url.host

\* C19: extract returns only links of scheme http or https, every returned
\* link is a normalized key, and no key is returned twice for a page.
C19_LinksClean ==
    probe.op = "links"
    => /\ \A i \in 1..Len(probe.links) :
              /\ probe.links[i].scheme \in {"http", "https"}
              /\ normalizeUrl(probe.links[i], probe.links[i]) = probe.links[i]
       /\ \A i, j \in 1..Len(probe.links) : probe.links[i] = probe.links[j] => i = j

\* C20: while a session runs with includeSvgImages false, the registry
\* holds no record of type svg and no record whose URL path ends in .svg.
C20_NoSvg ==
    loading /\ ~crawlSettings.includeSvgImages
    => \A i \in 1..Len(images) :
           images[i].type # "svg" /\ getImageType(images[i].url) # "svg"

\* C21: the retryCount of every image record is <= maxImageRetries, and a
\* record whose retryCount has reached maxImageRetries is not retried again:
\* no step raises its retryCount.
C21_RetryBounded ==
    /\ [](\A i \in 1..Len(images) : images[i].retryCount <= crawlSettings.maxRetries)
    /\ [][\A i \in 1..Len(images) :
            (Len(images') = Len(images) /\ images[i].retryCount >= crawlSettings.maxRetries)
            => images'[i].retryCount = images[i].retryCount]_vars

\* C22: a step that retries an image (it raises a retryCount) changes
\* exactly one record, a failed one that the grid shows under the type
\* filter: its retryCount goes up by 1 and its loadFailed becomes false.
C22_RetryFrame ==
    [][(/\ Len(images') = Len(images)
        /\ \E i \in 1..Len(images) : images'[i].retryCount # images[i].retryCount)
       => \E j \in 1..Len(images) :
              /\ images[j].loadFailed
              /\ imageTypeFilter = "" \/ images[j].type = imageTypeFilter
              /\ images' = [images EXCEPT ![j].loadFailed = FALSE,
                                          ![j].retryCount = @ + 1]]_vars

\* C23: a step that marks an image as failed (a loadFailed goes from false
\* to true) changes exactly one record, the one of the URL that failed to
\* load, which the grid shows under the type filter, and only its loadFailed.
C23_MarkFailedFrame ==
    [][(/\ Len(images') = Len(images)
        /\ \E i \in 1..Len(images) : ~images[i].loadFailed /\ images'[i].loadFailed)
       => \E j \in 1..Len(images) :
              /\ images[j].url \in failedImages'
              /\ imageTypeFilter = "" \/ images[j].type = imageTypeFilter
              /\ images' = [images EXCEPT ![j].loadFailed = TRUE]]_vars

\* C24: once two pages of a session have been fetched and answered, the
\* registry holds one record for each image URL; and a step that registers
\* images leaves every record already in the registry as it was (sourceUrl,
\* selected, loadFailed and retryCount included) and appends no record for a
\* URL that has one.
C24_OneRecordPerUrl ==
    /\ [](currentStats.pagesVisited = 2 /\ FetchTasks = {}
            => \A i, j \in 1..Len(images) : images[i].url = images[j].url => i = j)
    /\ [][Len(images') > Len(images)
           => \A i \in 1..Len(images) :
                  /\ images'[i] = images[i]
                  /\ \A j \in (Len(images) + 1)..Len(images') :
                         images'[j].url # images[i].url]_vars

\* C25 as claimed: when the session of the seed page with the 20 anchors
\* has ended by itself, frontier loop suppression has triggered (and logged
\* its warning) and the pending queue holds at most one unique entry.
C25_LoopSuppressed ==
    (hist.starts > 0 /\ ~hist.stopped /\ ~loading /\ tasks = {} /\ timers = {})
    => (hist.suppressed /\ Cardinality(Range(urlQueue)) <= 1)

\* C25 as amended: every one of the 20 anchors is discarded by the extractor:
\* loop suppression never triggers, the pending queue is empty once the seed
\* has been dequeued, and the step that handles the page's response leaves
\* the queue as it was and logs no error.
C25_NoLinksNoSuppression ==
    /\ [](~hist.suppressed /\ urlQueue = <<>> /\ urlQueueRef = <<>>)
    /\ [][\A t \in FetchTasks :
            t \notin tasks'
            => /\ urlQueue' = urlQueue
               /\ urlQueueRef' = urlQueueRef
               /\ Head(crawlLogs') # "error"]_vars

\* The seed page was crawled below the depth limit and the page limit, so
\* its anchors went through the extractor, and the session has completed.
C25_Witness ==
    /\ hist.starts > 0
    /\ ~hist.stopped
    /\ ~loading
    /\ tasks = {}
    /\ timers = {}
    /\ crawlSettings.maxDepth = 2
    /\ crawlSettings.maxPages = 2
    /\ currentStats.pagesVisited = 1
    /\ images # <<>>
    /\ urlQueue = <<>>
    /\ Head(crawlLogs) = "success"

\* C26 as claimed: until the next start() the log only grows: after every
\* step that is not a start, the log of before is the older end of the log
\* (the log is kept newest first).
C26_AppendOnly ==
    [][hist'.starts = hist.starts
       => \E n \in 0..Len(crawlLogs') :
              SubSeq(crawlLogs', n + 1, Len(crawlLogs')) = crawlLogs]_vars

\* C26 as amended: every entry has one of the four severities, the log holds
\* at most LogKeep entries, and a step that is not a start puts n new
\* entries in front of the log and keeps the newest of the old entries,
\* unaltered and in order, as far as LogKeep allows.
C26_NewestKept ==
    /\ [](/\ Range(crawlLogs) \subseteq {"info", "success", "warning", "error"}
          /\ Len(crawlLogs) <= LogKeep)
    /\ [][hist'.starts = hist.starts
           => \E n \in 0..LogKeep :
                  /\ Len(crawlLogs') = Min(LogKeep, n + Len(crawlLogs))
                  /\ \A i \in (n + 1)..Len(crawlLogs') :
                         crawlLogs'[i] = crawlLogs[i - n]]_vars

\* stop() has logged its entry on a full log: the entry before it was kept
\* and an older one was removed.
C26_Witness ==
    /\ hist.stopped
    /\ ~loading
    /\ tasks = {}
    /\ currentStats.pagesVisited >= 1
    /\ Len(crawlLogs) = LogKeep
    /\ crawlLogs[1] = "info"
    /\ crawlLogs[2] = "error"

\* C27 as claimed: for a request whose URL is on a YouTube thumbnail host,
\* the fetches are for the five variants in their order, none follows a
\* fetch that returned ok, the variant served is the one that returned ok,
\* and a failure is reported only when all five fetches have failed.
C27_FallbackChain ==
    (proxy.route = "image" /\ Parses(proxy.url) /\ proxy.url.host \in YouTubeHosts)
    => /\ Len(proxy.events) <= 5
       /\ \A i \in 1..Len(proxy.events) :
              /\ proxy.events[i].op = "fetch"
              /\ proxy.events[i].url.segs[Len(proxy.events[i].url.segs)]
                     = <<"maxresdefault.jpg", "hqdefault.jpg", "mqdefault.jpg",
                         "sddefault.jpg", "default.jpg">>[i]
              /\ i < Len(proxy.events) => proxy.events[i].result # "ok"
       /\ (proxy.pc = "done" /\ proxy.status = 200)
          => /\ proxy.events # <<>>
             /\ proxy.events[Len(proxy.events)].result = "ok"
             /\ proxy.served = proxy.events[Len(proxy.events)].url
       /\ (proxy.pc = "done" /\ proxy.status # 200)
          => /\ Len(proxy.events) = 5
             /\ \A i \in 1..5 : proxy.events[i].result # "ok"

\* C27 as amended: the same for a request whose URL is on a YouTube
\* thumbnail host and has a path segment vi followed by a video id, where
\* the fetches go to img.youtube.com and a failure is reported when all five
\* fetches have failed or the body of the variant that returned ok could not
\* be read.
C27_ThumbnailChain ==
    (/\ proxy.route = "image"
     /\ isYouTubeThumbnail(proxy.url).isYouTube
     /\ isYouTubeThumbnail(proxy.url).videoId # "")
    => /\ Len(proxy.events) <= 5
       /\ \A i \in 1..Len(proxy.events) :
              /\ proxy.events[i].op = "fetch"
              /\ proxy.events[i].url
                     = U("img.youtube.com",
                         <<"vi", isYouTubeThumbnail(proxy.url).videoId,
                           <<"maxresdefault.jpg", "hqdefault.jpg", "mqdefault.jpg",
                             "sddefault.jpg", "default.jpg">>[i]>>, 0)
              /\ i < Len(proxy.events) => proxy.events[i].result # "ok"
       /\ (proxy.pc = "done" /\ proxy.status = 200)
          => /\ proxy.events # <<>>
             /\ proxy.events[Len(proxy.events)].result = "ok"
             /\ proxy.served = proxy.events[Len(proxy.events)].url
       /\ (proxy.pc = "done" /\ proxy.status # 200)
          => \/ /\ Len(proxy.events) = 5
                /\ \A i \in 1..5 : proxy.events[i].result # "ok"
             \/ proxy.events[Len(proxy.events)].result = "ok"

\* The request for hqdefault.jpg: maxresdefault and hqdefault were not ok and
\* mqdefault is served.
C27_Witness ==
    /\ proxy.route = "image"
    /\ proxy.pc = "done"
    /\ proxy.status = 200
    /\ proxy.url = U("img.youtube.com", <<"vi", "abc123", "hqdefault.jpg">>, 0)
    /\ Len(proxy.events) = 3
    /\ proxy.events[1].result = "notok"
    /\ proxy.events[2].result = "notok"
    /\ proxy.served = U("img.youtube.com", <<"vi", "abc123", "mqdefault.jpg">>, 0)

\* C28: for a request that is fetched as a regular image, at most 3 fetches
\* are made, none follows a fetch that returned ok, every fetch after the
\* first comes right after a backoff wait, the waits double from one retry
\* to the next, the response served is the one that returned ok, and a
\* failure is reported only when the third fetch has failed (or the body of
\* the ok response could not be read).
C28_RetryWithBackoff ==
    (/\ proxy.route = "image"
     /\ Parses(proxy.url)
     /\ ~(isYouTubeThumbnail(proxy.url).isYouTube /\ isYouTubeThumbnail(proxy.url).videoId # ""))
    => LET IsFetch(e) == e.op = "fetch"
           IsWait(e) == e.op = "wait"
           fetches == SelectSeq(proxy.events, IsFetch)
           waits == SelectSeq(proxy.events, IsWait)
       IN /\ Len(fetches) <= MaxFetchRetries + 1
          /\ \A i \in 1..(Len(fetches) - 1) : fetches[i].result # "ok"
          /\ \A i \in 2..Len(proxy.events) :
                 proxy.events[i].op = "fetch" => proxy.events[i - 1].op = "wait"
          /\ \A i \in 2..Len(waits) : waits[i].ms = 2 * waits[i - 1].ms
          /\ (proxy.pc = "done" /\ proxy.status = 200)
             => /\ fetches # <<>>
                /\ fetches[Len(fetches)].result = "ok"
                /\ proxy.served = proxy.url
          /\ (proxy.pc = "done" /\ proxy.status # 200)
             => \/ /\ Len(fetches) = MaxFetchRetries + 1
                   /\ fetches[Len(fetches)].result # "ok"
                \/ fetches[Len(fetches)].result = "ok"

\* C29: the page proxy answers 400 with an error exactly when the url
\* parameter is missing; it answers 500 with an error only when the URL does
\* not parse or the fetch or the reading of the body throws; and when the
\* upstream server answers with a status outside 200..299 and the body is
\* read, the proxy answers with that status and that body and no error.
C29_StatusRelayed ==
    (proxy.route = "page" /\ proxy.pc = "done")
    => /\ (proxy.status = 400 /\ proxy.error) <=> proxy.url \in {Missing, Invalid}
       /\ (proxy.status = 500 /\ proxy.error)
          => (~Parses(proxy.url) \/ proxy.threw \in {"fetch", "text"})
       /\ (proxy.upstream # 0 /\ proxy.upstream \notin 200..299 /\ proxy.threw # "text")
          => (~proxy.error /\ proxy.status = proxy.upstream)

\* C30: the queue is first in, first out.  The keys dequeued so far are the
\* first of the keys enqueued, in the same order (a dequeue removes the
\* head); while the crawl runs the others are the queue, in the order they
\* were enqueued (new links go to the tail); so of two keys that were both
\* dequeued, the one enqueued first was dequeued first.
C30_Fifo ==
    /\ \A i \in DOMAIN hist.deq : i \in DOMAIN hist.enq /\ hist.enq[i] = hist.deq[i]
    /\ (loading /\ ~hist.stopped) => hist.enq = hist.deq \o urlQueueRef
    /\ \A a \in Range(hist.deq) : \A b \in Range(hist.deq) \ {a} :
           (\E m \in DOMAIN hist.enq :
               /\ hist.enq[m] = a
               /\ \A n \in DOMAIN hist.enq : hist.enq[n] = b => m < n)
           => (\E i \in DOMAIN hist.deq :
                  /\ hist.deq[i] = a
                  /\ \A j \in DOMAIN hist.deq : hist.deq[j] = b => i < j)

\* Three keys were dequeued, the second enqueued before the third, and
\* another key is still in the queue.
C30_Witness ==
    /\ Len(hist.deq) >= 3
    /\ hist.deq[2] # hist.deq[3]
    /\ \E m \in DOMAIN hist.enq : \E n \in DOMAIN hist.enq :
          /\ m < n
          /\ hist.enq[m] = hist.deq[2]
          /\ hist.enq[n] = hist.deq[3]
    /\ Len(urlQueueRef) > 0

\* C31: the key of every page whose fetch is outstanding is in the visited
\* set (the ref the crawl tests, or the state it is copied from).
C31_InFlightVisited ==
    \A t \in tasks :
        t.pc = "fetch"
        => \/ normalizeUrl(t.pageUrl, t.pageUrl) \in visitedUrlsRef
           \/ normalizeUrl(t.pageUrl, t.pageUrl) \in visitedUrls

\* C32: no fetch of a session is issued after an earlier fetch of the same
\* session whose handling ended without the inter-request delay.
C32_DelayBetweenFetches == ~hist.noDelay

\* C33 as claimed: run on a queue of more than 10 entries of which fewer
\* than half are distinct, the queue effect leaves one copy of each entry;
\* run on a queue that is not empty and whose entries are all identical, it
\* leaves the queue empty; in both cases a warning is logged.
C33_LoopSuppression ==
    probe.op = "suppressed"
    => /\ (Len(probe.queue) > LoopMinLen
           /\ 2 * Cardinality(Range(probe.queue)) < Len(probe.queue))
          => /\ Range(probe.out.urlQueue) = Range(probe.queue)
             /\ Len(probe.out.urlQueue) = Cardinality(Range(probe.queue))
             /\ "warning" \in Range(probe.out.crawlLogs)
       /\ (/\ probe.queue # <<>>
           /\ \A i \in DOMAIN probe.queue : probe.queue[i] = probe.queue[1])
          => /\ probe.out.urlQueue = <<>>
             /\ "warning" \in Range(probe.out.crawlLogs)

\* C33: run on a queue of more than 10 entries of which fewer than half are
\* distinct and not all identical, the queue effect leaves one copy of
\* each entry, in the order of first occurrence; run on a queue of more than
\* 5 entries that are all identical, it leaves the queue empty; in both
\* cases a warning is logged and the ref holds the same queue.
C33_Suppression ==
    probe.op = "suppressed"
    => /\ (/\ Len(probe.queue) > LoopMinLen
           /\ 2 * Cardinality(Range(probe.queue)) < Len(probe.queue)
           /\ \E i \in DOMAIN probe.queue : probe.queue[i] # probe.queue[1])
          => /\ Range(probe.out.urlQueue) = Range(probe.queue)
             /\ Len(probe.out.urlQueue) = Cardinality(Range(probe.queue))
             /\ \A i \in DOMAIN probe.out.urlQueue : \A j \in DOMAIN probe.out.urlQueue :
                    i < j => \E m \in DOMAIN probe.queue :
                                /\ probe.queue[m] = probe.out.urlQueue[i]
                                /\ \A n \in 1..m : probe.queue[n] # probe.out.urlQueue[j]
             /\ probe.out.urlQueueRef = probe.out.urlQueue
             /\ "warning" \in Range(probe.out.crawlLogs)
       /\ (/\ Len(probe.queue) > SameMinLen
           /\ \A i \in DOMAIN probe.queue : probe.queue[i] = probe.queue[1])
          => /\ probe.out.urlQueue = <<>>
             /\ probe.out.urlQueueRef = <<>>
             /\ "warning" \in Range(probe.out.crawlLogs)

\* The effect was run on a queue of 12 entries that cycles through three
\* URLs and left three entries.
C33_Witness ==
    /\ probe.op = "suppressed"
    /\ Len(probe.queue) > LoopMinLen
    /\ Cardinality(Range(probe.queue)) = 3
    /\ Len(probe.out.urlQueue) = 3

\* C34: every page is crawled at the depth of the page its link was found
\* on plus one, the seed at depth 1.
C34_DepthIsHops == ~hist.depthOff

\* C35: imagesFound is the number of records in the image registry.
C35_ImagesCounted == currentStats.imagesFound = Len(images)

\* The second session of a run has registered an image and has fetched a
\* second page.
C35_Witness ==
    /\ hist.starts = 2
    /\ Len(images) > 0
    /\ currentStats.pagesVisited = 2

\* C36: the response of a page whose fetch was issued before the last
\* start() adds no record to the image registry and no entry to the queue.
C36_NoCarryOver ==
    [][\A t \in tasks :
          (t.pc = "fetch" /\ t.session < hist.starts /\ t \notin tasks')
          => /\ Len(images') <= Len(images)
             /\ Len(urlQueue') <= Len(urlQueue)]_vars

\* C37: while a session runs (started, not stopped, no download under way)
\* and the in-progress flag is set, a page fetch, an inter-request delay or
\* a processQueue timer is pending.
C37_NoHang ==
    (/\ loading
     /\ ~hist.stopped
     /\ \A t \in tasks : t.pc # "download"
     /\ isProcessingRef)
    => \/ \E t \in tasks : t.pc \in {"fetch", "delay"}
       \/ timers # {}

====
